---- MODULE Spec2Model ----
(***************************************************************************)
(* Model of kernel/src/memory/physical_memory/static_linear_allocator.rs:  *)
(* the bitmap region tracker PmmModule and the StaticLinearAllocator that  *)
(* builds a chain of trackers inside the memory it manages.                *)
(*                                                                         *)
(* Addresses and lengths are byte counts.  The metadata buffer is modelled *)
(* as bytes addressed by their offset from buffer_start; only the bytes of *)
(* the bitmaps are kept.  A write past the end of the bitmap it is aimed   *)
(* at is recorded in oob, and a module record it hits is clobbered.        *)
(***************************************************************************)
EXTENDS Integers, Sequences, FiniteSets, TLC

\* crate::memory::PAGE_SIZE and size_of::<PmmModule>() are fixed outside this
\* file (4096 and 64 on the x86_64 target).  The model keeps the code's
\* arithmetic and scales both down so that a metadata buffer of eight and
\* more frames is reachable with bitmaps of a few dozen bytes.
PAGE_SIZE == 8
SizeOfPmmModule == 1
HHDM_OFFSET == 64 * PAGE_SIZE

\* Bounds of the model.
MaxRegions == 3
MaxAllocs == 6
MaxTrackerFrames == 10

\* Option::None for Option<usize> and Option<*mut PmmModule>.
None == -1

VARIABLES
    state,            \* "Uninitialized", "Ready", "NoSuitableRegion", "Panicked", "Tracker"
    memory_regions,   \* the argument of StaticLinearAllocator::new
    modules,          \* the PmmModule records, in the order they were carved
    root_module,      \* StaticLinearAllocator.root_module (index into modules) or None
    memory,           \* bitmap bytes of the metadata buffer, by buffer offset
    oob,              \* buffer offsets written past the end of a bitmap
    containing_entry, \* new's containing_entry.0, or None
    buffer_size,      \* new's buffer_size
    buffer_start,     \* new's buffer_start, as a physical address
    result,           \* outcome of the last call
    history           \* outcomes of the allocate calls so far, oldest first

vars == <<state, memory_regions, modules, root_module, memory, oob,
          containing_entry, buffer_size, buffer_start, result, history>>

----------------------------------------------------------------------------
\* Arithmetic helpers

DivCeil(a, b) == (a + b - 1) \div b

AlignUp(addr, align) == DivCeil(addr, align) * align

Pow2(n) == IF n = 0 THEN 1 ELSE IF n = 1 THEN 2 ELSE IF n = 2 THEN 4
           ELSE IF n = 3 THEN 8 ELSE IF n = 4 THEN 16 ELSE IF n = 5 THEN 32
           ELSE IF n = 6 THEN 64 ELSE IF n = 7 THEN 128 ELSE 256

\* Bit::bit on a u8: bit number b counted from the least significant bit.
TestBit(byte, b) == ((byte \div Pow2(b)) % 2) = 1

SetMin(S) == CHOOSE x \in S : \A y \in S : x <= y

\* Frame::containing_address
FrameContainingAddress(addr) == addr - (addr % PAGE_SIZE)

----------------------------------------------------------------------------
\* PmmModule

\* PmmModule::init with the hint starting one frame too far
PmmModuleInitHintOne(start_address, size, memory_maps_start) ==
    LET frame_count == DivCeil(size, PAGE_SIZE) IN
    [ start_address      |-> start_address,
      bitmap_size        |-> DivCeil(frame_count, 8),
      bitmap_entry_count |-> frame_count,
      bitmap             |-> memory_maps_start,
      last_free          |-> 1,
      next               |-> None ]

\* PmmModule::init; memory_maps_start is the buffer offset of the bitmap
PmmModuleInit(start_address, size, memory_maps_start) ==
    LET frame_count == DivCeil(size, PAGE_SIZE) IN
    [ start_address      |-> start_address,
      bitmap_size        |-> DivCeil(frame_count, 8),
      bitmap_entry_count |-> frame_count,
      bitmap             |-> memory_maps_start,
      last_free          |-> 0,
      next               |-> None ]

\* the memset of PmmModule::init
ZeroFill(mem, module) ==
    LET range == module.bitmap .. (module.bitmap + module.bitmap_size - 1) IN
    [o \in (DOMAIN mem) \cup range |-> IF o \in range THEN 0 ELSE mem[o]]

\* The bit allocate_frames tests for frame index i of a module.
FrameBit(mem, module, i) ==
    TestBit(mem[module.bitmap + (i \div 8)], 7 - (i % 8))

\* The hint left by the scan loop of allocate_frames.  The loop runs over
\* bit_base..bitmap_entry_count-1 and stops at the first bit that is set in
\* the stored bitmap, storing bit_base + i.
ScanLastFree(mem, module, bit_base) ==
    LET hits == {i \in bit_base .. (module.bitmap_entry_count - 1) :
                    FrameBit(mem, module, i)}
    IN IF hits = {} THEN module.last_free ELSE bit_base + SetMin(hits)

\* PmmModule::allocate_frames: the returned Option<PhysicalAddress>
AllocateFramesResult(module) ==
    IF module.last_free # None
    THEN module.start_address + module.last_free * PAGE_SIZE
    ELSE None

\* allocate_frames that also drops the link to the next module
AllocateFramesModuleUnlinks(mem, module) ==
    IF module.last_free # None
    THEN [module EXCEPT !.last_free = ScanLastFree(mem, module, module.last_free),
                        !.next = None]
    ELSE module

\* PmmModule::allocate_frames: the module afterwards.  set_bit acts on a copy
\* of the byte (the value of the unsafe block), so the stored bitmap is
\* not written.  The byte is read at bit_base / 8 even when last_free has
\* moved past bitmap_entry_count; the value read is dropped and has no effect.
AllocateFramesModule(mem, module) ==
    IF module.last_free # None
    THEN LET alloc == module.start_address + module.last_free * PAGE_SIZE
             bit_base == (alloc - module.start_address) \div PAGE_SIZE
         IN [module EXCEPT !.last_free = ScanLastFree(mem, module, bit_base)]
    ELSE module

----------------------------------------------------------------------------
\* Inputs of StaticLinearAllocator::new

\* The n-th entry of the memory map lies at n * Stride; every second entry
\* starts off a page boundary.
Stride == 512 * PAGE_SIZE

RegionBase(n) == n * Stride + (IF n % 2 = 0 THEN 3 ELSE 0)

BigLength == 440 * PAGE_SIZE

Lengths == {PAGE_SIZE, 2 * PAGE_SIZE - 3, 4 * PAGE_SIZE, 8 * PAGE_SIZE, BigLength}

Entry(n, length, usable) ==
    [base |-> RegionBase(n), length |-> length, usable |-> usable]

EntriesAt(n) == {Entry(n, l, u) : l \in Lengths, u \in BOOLEAN}

RECURSIVE RegionListsOfLen(_)
RegionListsOfLen(n) ==
    IF n = 0 THEN {<<>>}
    ELSE {Append(l, e) : l \in RegionListsOfLen(n - 1), e \in EntriesAt(n)}

RegionLists == UNION {RegionListsOfLen(n) : n \in 1..MaxRegions}

----------------------------------------------------------------------------
\* StaticLinearAllocator::new

\* positions of the entries that pass the USABLE filter, in report order
UsablePositions(regions) == {n \in DOMAIN regions : regions[n].usable}

\* one term of the fold that computes buffer_size
EntryCost(entry) ==
    SizeOfPmmModule * 2 + DivCeil(DivCeil(entry.length, PAGE_SIZE), 8)

RECURSIVE BufferSizeFold(_, _)
BufferSizeFold(regions, n) ==
    IF n = 0 THEN 0
    ELSE BufferSizeFold(regions, n - 1)
         + (IF regions[n].usable THEN EntryCost(regions[n]) ELSE 0)

BufferSize(regions) == BufferSizeFold(regions, Len(regions))

\* the find of new taking the last entry that fits instead of the first
ContainingEntryLast(regions) ==
    LET fit == {n \in DOMAIN regions :
                   regions[n].usable /\ regions[n].length >= BufferSize(regions)}
    IN IF fit = {} THEN None
       ELSE (CHOOSE x \in fit : \A y \in fit : y <= x) - 1

\* the enumerate().find(..) of new: the 0-based position, among all entries,
\* of the first usable entry that is long enough; None when there is none
ContainingEntry(regions) ==
    LET fit == {n \in DOMAIN regions :
                   regions[n].usable /\ regions[n].length >= BufferSize(regions)}
    IN IF fit = {} THEN None ELSE SetMin(fit) - 1

BufferStart(regions) ==
    AlignUp(regions[ContainingEntry(regions) + 1].base + HHDM_OFFSET, PAGE_SIZE)
        - HHDM_OFFSET

\* The for_each of new over the first n entries: the modules carved so far,
\* the bitmap bytes and the running meta_buffer offset.
RECURSIVE CreateModules(_, _)
CreateModules(regions, n) ==
    IF n = 0 THEN [mods |-> <<>>, mem |-> <<>>, meta_buffer |-> 0]
    ELSE LET prev == CreateModules(regions, n - 1) IN
         IF ~regions[n].usable THEN prev
         ELSE LET bitmap_location == prev.meta_buffer + SizeOfPmmModule * 2
                  module == PmmModuleInit(regions[n].base, regions[n].length,
                                          bitmap_location)
                  count == Len(prev.mods)
                  \* the walk to the last module sets its next pointer
                  linked == IF count = 0 THEN prev.mods
                            ELSE [prev.mods EXCEPT ![count].next = count + 1]
              IN [mods |-> Append(linked, module),
                  mem |-> ZeroFill(prev.mem, module),
                  meta_buffer |-> bitmap_location + module.bitmap_size]

\* The walk of allocate_self_memory: n times .next.unwrap() from the module at
\* index idx.  None stands for the panic of unwrap on a None link.
RECURSIVE WalkNext(_, _, _)
WalkNext(mods, idx, n) ==
    IF n = 0 THEN idx
    ELSE IF mods[idx].next = None THEN None
    ELSE WalkNext(mods, mods[idx].next, n - 1)

\* The buffer offsets allocate_self_memory writes, with the value written.
SelfMemoryWrites(module, size) ==
    LET frame_count == DivCeil(size, PAGE_SIZE)
        byte_count == frame_count \div 8
        bit_count == frame_count % 8
    IN [o \in module.bitmap .. (module.bitmap + byte_count) |->
           IF o < module.bitmap + byte_count THEN 255 ELSE Pow2(bit_count) - 1]

\* the bitmap bytes after a set of byte writes (a write past the end of one
\* bitmap can land in the bitmap of a later module)
ApplyWrites(mem, writes) ==
    [o \in DOMAIN mem |-> IF o \in DOMAIN writes THEN writes[o] ELSE mem[o]]

\* the offsets written past the end of the bitmap of the module written to
NewOob(module, writes) ==
    {o \in DOMAIN writes : o >= module.bitmap + module.bitmap_size}

\* the bytes of the metadata buffer that hold a module's record
RecordRange(module) ==
    (module.bitmap - SizeOfPmmModule * 2) .. (module.bitmap - SizeOfPmmModule - 1)

ReplaceLowByte(x, v) == x - (x % 256) + v

\* A record with a byte overwritten by v.  The field order of PmmModule is
\* chosen by the compiler, so the byte can be the low byte of any integer
\* field or the discriminant of either Option (0 reads as None); the record
\* is also kept as it was, for a byte that already held v.
ClobberOutcomes(module, v) ==
    { module,
      [module EXCEPT !.start_address = ReplaceLowByte(@, v)],
      [module EXCEPT !.bitmap_size = ReplaceLowByte(@, v)],
      [module EXCEPT !.bitmap_entry_count = ReplaceLowByte(@, v)],
      [module EXCEPT !.last_free = IF v = 0 THEN None ELSE @],
      [module EXCEPT !.next = IF v = 0 THEN None ELSE @] }

\* The first n module records after the writes of allocate_self_memory: a
\* record hit by a write past the bitmap takes any of its clobbered forms.
RECURSIVE ModulesAfterWrites(_, _, _, _)
ModulesAfterWrites(mods, writes, stray, n) ==
    IF n = 0 THEN {<<>>}
    ELSE LET hit == RecordRange(mods[n]) \cap stray
             forms == IF hit = {} THEN {mods[n]}
                      ELSE ClobberOutcomes(mods[n], writes[SetMin(hit)])
         IN {Append(ms, r) :
                ms \in ModulesAfterWrites(mods, writes, stray, n - 1),
                r \in forms}

NoResult == [op |-> "none", arg |-> 0, tag |-> "none", addr |-> 0]

\* new returns Err: no usable entry can hold the metadata
NewNoSuitableRegion(regions) ==
    /\ ContainingEntry(regions) = None
    /\ state' = "NoSuitableRegion"
    /\ memory_regions' = regions
    /\ buffer_size' = BufferSize(regions)
    /\ result' = [op |-> "new", arg |-> 0, tag |-> "Err", addr |-> 0]
    /\ UNCHANGED <<modules, root_module, memory, oob, containing_entry,
                   buffer_start, history>>

\* new panics in allocate_self_memory: the chain is shorter than
\* containing_region_number
NewPanics(regions) ==
    LET made == CreateModules(regions, Len(regions)) IN
    /\ ContainingEntry(regions) # None
    /\ WalkNext(made.mods, 1, ContainingEntry(regions)) = None
    /\ state' = "Panicked"
    /\ memory_regions' = regions
    /\ buffer_size' = BufferSize(regions)
    /\ containing_entry' = ContainingEntry(regions)
    /\ buffer_start' = BufferStart(regions)
    /\ modules' = made.mods
    /\ memory' = made.mem
    /\ root_module' = 1
    /\ result' = [op |-> "new", arg |-> 0, tag |-> "Panic", addr |-> 0]
    /\ UNCHANGED <<oob, history>>

\* new returns Ok
NewOk(regions) ==
    LET made == CreateModules(regions, Len(regions))
        containing_module == WalkNext(made.mods, 1, ContainingEntry(regions))
        writes == SelfMemoryWrites(made.mods[containing_module],
                                   BufferSize(regions))
    IN
    /\ ContainingEntry(regions) # None
    /\ containing_module # None
    /\ state' = "Ready"
    /\ memory_regions' = regions
    /\ buffer_size' = BufferSize(regions)
    /\ containing_entry' = ContainingEntry(regions)
    /\ buffer_start' = BufferStart(regions)
    /\ oob' = NewOob(made.mods[containing_module], writes)
    /\ modules' \in ModulesAfterWrites(made.mods, writes, oob', Len(made.mods))
    /\ memory' = ApplyWrites(made.mem, writes)
    /\ root_module' = 1
    /\ result' = [op |-> "new", arg |-> 0, tag |-> "Ok", addr |-> 0]
    /\ UNCHANGED history

New ==
    /\ state = "Uninitialized"
    /\ \E regions \in RegionLists :
          \/ NewNoSuitableRegion(regions)
          \/ NewPanics(regions)
          \/ NewOk(regions)

----------------------------------------------------------------------------
\* FrameAllocator for StaticLinearAllocator

\* The loop of allocate_frame with the Ok return missing: it goes round
\* again on the same module.
RECURSIVE AllocateFrameVisitsNoReturn(_, _, _)
AllocateFrameVisitsNoReturn(mods, idx, fuel) ==
    IF fuel = 0 THEN <<>>
    ELSE IF AllocateFramesResult(mods[idx]) # None
    THEN <<idx>> \o AllocateFrameVisitsNoReturn(mods, idx, fuel - 1)
    ELSE IF mods[idx].next = None THEN <<idx>>
    ELSE <<idx>> \o AllocateFrameVisitsNoReturn(mods, mods[idx].next, fuel - 1)

\* The loop of allocate_frame from the module at index idx: the modules on
\* which allocate_frames is called, in order.  The loop leaves at the first
\* module that returns Some or has no next; the trace is cut after fuel
\* iterations.
RECURSIVE AllocateFrameVisits(_, _, _)
AllocateFrameVisits(mods, idx, fuel) ==
    IF fuel = 0 THEN <<>>
    ELSE IF AllocateFramesResult(mods[idx]) # None THEN <<idx>>
    ELSE IF mods[idx].next = None THEN <<idx>>
    ELSE <<idx>> \o AllocateFrameVisits(mods, mods[idx].next, fuel - 1)

\* The module whose allocate_frames returns Some, or None when the chain
\* ends (or the loop is still running after one iteration more than there
\* are modules).
ServingModule(mods, idx) ==
    LET visits == AllocateFrameVisits(mods, idx, Len(mods) + 1)
        last == visits[Len(visits)]
    IN IF Len(visits) <= Len(mods) /\ AllocateFramesResult(mods[last]) # None
       THEN last ELSE None

AllocateFrame ==
    /\ state = "Ready"
    /\ Len(history) < MaxAllocs
    /\ LET served == ServingModule(modules, root_module) IN
       IF served # None
       THEN LET alloc == AllocateFramesResult(modules[served])
                r == [op |-> "allocate_frame", arg |-> 0, tag |-> "Ok",
                      addr |-> FrameContainingAddress(alloc)]
            IN /\ modules' = [modules EXCEPT
                                ![served] = AllocateFramesModule(memory, @)]
               /\ result' = r
               /\ history' = Append(history, r)
       ELSE LET r == [op |-> "allocate_frame", arg |-> 0, tag |-> "Err",
                      addr |-> 0]
            IN /\ UNCHANGED modules
               /\ result' = r
               /\ history' = Append(history, r)
    /\ UNCHANGED <<state, memory_regions, root_module, memory, oob,
                   containing_entry, buffer_size, buffer_start>>

\* the frames a caller may pass to deallocate_frame: the first frames of
\* every region and one address outside all of them
DeallocArgs ==
    {FrameContainingAddress(modules[m].start_address + i * PAGE_SIZE) :
        m \in DOMAIN modules, i \in 0..1} \cup {0}

\* deallocate_frame is todo!(): every call panics
DeallocateFrame ==
    /\ state = "Ready"
    /\ \E frame \in DeallocArgs :
          result' = [op |-> "deallocate_frame", arg |-> frame,
                     tag |-> "Panic", addr |-> 0]
    /\ state' = "Panicked"
    /\ UNCHANGED <<memory_regions, modules, root_module, memory, oob,
                   containing_entry, buffer_size, buffer_start, history>>

Init ==
    /\ state = "Uninitialized"
    /\ memory_regions = <<>>
    /\ modules = <<>>
    /\ root_module = None
    /\ memory = <<>>
    /\ oob = {}
    /\ containing_entry = None
    /\ buffer_size = 0
    /\ buffer_start = 0
    /\ result = NoResult
    /\ history = <<>>

Next ==
    \/ New
    \/ AllocateFrame
    \/ DeallocateFrame

Spec == Init /\ [][Next]_vars

----------------------------------------------------------------------------
\* A single PmmModule on its own: init on a zeroed bitmap, then calls of
\* allocate_frames.

TrackerStarts == {0, 3, PAGE_SIZE, 5 * PAGE_SIZE}

TrackerSizes ==
    {f * PAGE_SIZE : f \in 1..MaxTrackerFrames} \cup {PAGE_SIZE + 1, 1}

TrackerInit ==
    /\ state = "Tracker"
    /\ \E start_address \in TrackerStarts, size \in TrackerSizes :
          LET module == PmmModuleInit(start_address, size, 0) IN
          /\ modules = <<module>>
          /\ memory = ZeroFill(<<>>, module)
    /\ memory_regions = <<>>
    /\ root_module = None
    /\ oob = {}
    /\ containing_entry = None
    /\ buffer_size = 0
    /\ buffer_start = 0
    /\ result = NoResult
    /\ history = <<>>

\* one call of allocate_frames(1) on the module
TrackerAllocateFrames ==
    /\ state = "Tracker"
    /\ Len(history) <= modules[1].bitmap_entry_count
    /\ LET alloc == AllocateFramesResult(modules[1])
           r == [op |-> "allocate_frames", arg |-> 1,
                 tag |-> IF alloc = None THEN "None" ELSE "Some",
                 addr |-> IF alloc = None THEN 0 ELSE alloc]
       IN /\ modules' = [modules EXCEPT ![1] = AllocateFramesModule(memory, @)]
          /\ result' = r
          /\ history' = Append(history, r)
    /\ UNCHANGED <<state, memory_regions, root_module, memory, oob,
                   containing_entry, buffer_size, buffer_start>>

TrackerNext == TrackerAllocateFrames

TrackerSpec == TrackerInit /\ [][TrackerNext]_vars

----------------------------------------------------------------------------
\* Vocabulary of the properties

\* frames allocate_self_memory is meant to reserve
SelfFrameCount == DivCeil(buffer_size, PAGE_SIZE)

\* the entry new selected to hold the metadata
HostEntry == memory_regions[containing_entry + 1]

SelfFrames ==
    {FrameContainingAddress(HostEntry.base + i * PAGE_SIZE) :
        i \in 0 .. (SelfFrameCount - 1)}

\* the module that stands for the host entry
IsHostModule(m) == modules[m].start_address = HostEntry.base

RECURSIVE TotalFrames(_)
TotalFrames(m) ==
    IF m = 0 THEN 0 ELSE TotalFrames(m - 1) + modules[m].bitmap_entry_count

\* the frames of module m that are free after construction, lowest first
FreeFramesOf(m) ==
    LET lo == IF IsHostModule(m) THEN SelfFrameCount ELSE 0
        n == modules[m].bitmap_entry_count - lo
    IN IF n <= 0 THEN <<>>
       ELSE [j \in 1..n |->
               FrameContainingAddress(
                   modules[m].start_address + (lo + j - 1) * PAGE_SIZE)]

RECURSIVE ChainOrder(_)
ChainOrder(m) ==
    IF m > Len(modules) THEN <<>> ELSE FreeFramesOf(m) \o ChainOrder(m + 1)

WasReturned(frame) ==
    \E j \in DOMAIN history : history[j].tag = "Ok" /\ history[j].addr = frame

IsTracked(frame) ==
    \E m \in DOMAIN modules :
        /\ frame >= FrameContainingAddress(modules[m].start_address)
        /\ frame < modules[m].start_address
                     + modules[m].bitmap_entry_count * PAGE_SIZE

----------------------------------------------------------------------------
\* Properties

\* C1: no frame is handed out twice: the frames of any two successful
\* allocate_frame calls differ (no deallocation ever completes in between).
NoFrameHandedOutTwice ==
    \A i, j \in DOMAIN history :
        (i < j /\ history[i].tag = "Ok" /\ history[j].tag = "Ok")
            => history[i].addr # history[j].addr

\* C2: the frames [0, ceil(buffer_size / PAGE_SIZE)) of the host region are
\* never returned by allocate_frame.
SelfFramesNeverReturned ==
    \A j \in DOMAIN history :
        (state # "Tracker" /\ history[j].tag = "Ok")
            => history[j].addr \notin SelfFrames

\* C3: a fresh tracker of N frames serves exactly N calls of allocate_frames
\* and the call after them returns None.
TrackerCapacityExact ==
    state = "Tracker" =>
        \A j \in DOMAIN history :
            IF j <= modules[1].bitmap_entry_count
            THEN history[j].tag = "Some"
            ELSE history[j].tag = "None"

\* C4: allocate_frame succeeds exactly T times, T being the frames of all
\* trackers minus the self-reserved ones, and fails on every later call.
AllocatableFramesTotal ==
    \A j \in DOMAIN history :
        state # "Tracker" =>
            (history[j].tag = "Ok"
                <=> j <= TotalFrames(Len(modules)) - SelfFrameCount)

\* C5: allocate_frame returns the free frames of the first tracker lowest
\* first, then those of the next tracker, and fails once the chain is
\* exhausted.
ChainOrderAllocation ==
    \A j \in DOMAIN history :
        state # "Tracker" =>
            IF j <= Len(ChainOrder(1))
            THEN history[j].tag = "Ok" /\ history[j].addr = ChainOrder(1)[j]
            ELSE history[j].tag = "Err"

\* C6: a tracker's last_free, when Some(i), has i < bitmap_entry_count and
\* bit i of the bitmap clear.
FreeHintInvariant ==
    state = "Ready" =>
        \A m \in DOMAIN modules :
            modules[m].last_free # None =>
                /\ modules[m].last_free < modules[m].bitmap_entry_count
                /\ ~FrameBit(memory, modules[m], modules[m].last_free)

\* C7: the first allocate_frames call on a freshly initialised tracker
\* returns the region's start_address.
FirstAllocationIsStart ==
    (state = "Tracker" /\ history # <<>>) =>
        /\ history[1].tag = "Some"
        /\ history[1].addr = modules[1].start_address

FirstAllocationIsStartWitness ==
    /\ state = "Tracker"
    /\ Len(history) = 1
    /\ modules[1].start_address = 5 * PAGE_SIZE
    /\ modules[1].bitmap_entry_count > 1
    /\ history[1].tag = "Some"
    /\ history[1].addr = 5 * PAGE_SIZE

\* C8: deallocating an allocated frame succeeds, and the allocation right
\* after it returns a frame at or below the one freed.
DeallocateThenAllocate ==
    [][ /\ (result'.op = "deallocate_frame" /\ WasReturned(result'.arg))
            => result'.tag = "Ok"
        /\ (result.op = "deallocate_frame" /\ result'.op = "allocate_frame")
            => (result'.tag = "Ok" /\ result'.addr <= result.arg) ]_vars

\* C9: deallocation errors are typed results: a frame that is free yields
\* DoubleFree, a frame outside the trackers yields OutOfRange, the call
\* never aborts and leaves bitmap and hint as they were.
DeallocationErrorsTyped ==
    [][ result'.op = "deallocate_frame" =>
          /\ state' # "Panicked"
          /\ (IsTracked(result'.arg) /\ ~WasReturned(result'.arg))
                => result'.tag = "DoubleFree"
          /\ ~IsTracked(result'.arg) => result'.tag = "OutOfRange"
          /\ result'.tag \in {"DoubleFree", "OutOfRange"}
                => (modules' = modules /\ memory' = memory) ]_vars

\* C10: construction does not abort while locating the host tracker, and the
\* tracker that receives the self-reservation is the one of the host region.
SelfReservationOnHost ==
    /\ (result.op = "new" => result.tag # "Panic")
    /\ (state = "Ready" =>
          IsHostModule(WalkNext(modules, root_module, containing_entry)))

\* the frame indexes of module m whose bit lies in the bitmap bytes
FramesOf(m) ==
    {i \in 0 .. (modules[m].bitmap_entry_count - 1) :
        modules[m].bitmap + (i \div 8) \in DOMAIN memory}

\* the first frame at or after index from whose bit is clear, or None
FirstClear(mem, module, from) ==
    LET clear == {i \in from .. (module.bitmap_entry_count - 1) :
                     ~FrameBit(mem, module, i)}
    IN IF clear = {} THEN None ELSE SetMin(clear)

\* C11: right after construction, read the way allocate_frames reads bits,
\* exactly the frames [0, ceil(buffer_size / PAGE_SIZE)) of the host tracker
\* are marked allocated and every other frame of every tracker is free.
SelfReservationBits ==
    (state = "Ready" /\ result.op = "new") =>
        \A m \in DOMAIN modules : \A i \in FramesOf(m) :
            FrameBit(memory, modules[m], i)
                <=> (IsHostModule(m) /\ i < SelfFrameCount)

\* C12: right after construction the host tracker's last_free is the first
\* clear bit at or after the reserved range, or None when there is none.
HintRevalidated ==
    (state = "Ready" /\ result.op = "new") =>
        \A m \in DOMAIN modules :
            IsHostModule(m) =>
                modules[m].last_free
                    = FirstClear(memory, modules[m], SelfFrameCount)

\* C13: allocate_frames with last_free = Some(i) sets bit i of the stored
\* bitmap and moves last_free to the first clear bit in [i, count - 1], or
\* to None; with last_free = None it returns None.
AllocateOneContract ==
    [][ result'.op = "allocate_frames" =>
          IF modules[1].last_free = None
          THEN result'.tag = "None"
          ELSE /\ FrameBit(memory', modules'[1], modules[1].last_free)
               /\ modules'[1].last_free
                    = FirstClear(memory', modules'[1], modules[1].last_free)
      ]_vars

\* the metadata size as the sum, over the usable entries, of two record
\* sizes and one bitmap byte per eight frames
MetadataTotal ==
    LET cost(n) == 2 * SizeOfPmmModule
                   + DivCeil(DivCeil(memory_regions[n].length, PAGE_SIZE), 8)
        sum[S \in SUBSET (DOMAIN memory_regions)] ==
            IF S = {} THEN 0
            ELSE LET n == CHOOSE x \in S : TRUE IN cost(n) + sum[S \ {n}]
    IN sum[{n \in DOMAIN memory_regions : memory_regions[n].usable}]

\* the entries that can hold the metadata
Qualifying ==
    {n \in DOMAIN memory_regions :
        memory_regions[n].usable /\ memory_regions[n].length >= MetadataTotal}

\* C14: new selects the first usable entry, in report order, that is at
\* least as long as the metadata; with no such entry it fails with
\* NoSuitableRegion and builds no allocator.  An entry that is not usable is
\* never selected.
HostSelection ==
    result.op \in {"new", "allocate_frame", "deallocate_frame"} =>
        /\ buffer_size = MetadataTotal
        /\ (state = "NoSuitableRegion") <=> (Qualifying = {})
        /\ state = "NoSuitableRegion"
              => (containing_entry = None /\ root_module = None
                  /\ modules = <<>>)
        /\ state # "NoSuitableRegion"
              => (/\ containing_entry + 1 \in Qualifying
                  /\ \A n \in Qualifying : containing_entry + 1 <= n)

\* a long entry that is not usable comes first and is passed over
HostSelectionWitness ==
    /\ result.op = "new"
    /\ Len(memory_regions) = 3
    /\ ~memory_regions[1].usable
    /\ memory_regions[1].length = BigLength
    /\ memory_regions[2].usable
    /\ memory_regions[2].length = PAGE_SIZE
    /\ containing_entry = 2

\* the position in memory_regions of the j-th usable entry
NthUsable(j) ==
    CHOOSE n \in DOMAIN memory_regions :
        /\ memory_regions[n].usable
        /\ Cardinality({k \in 1..n : memory_regions[k].usable}) = j

UsableCount == Cardinality(UsablePositions(memory_regions))

AllocateFrameFrame ==
    [][ Len(history') = Len(history) + 1 =>
          /\ Len(modules') = Len(modules)
          /\ root_module' = root_module
          /\ DOMAIN memory' = DOMAIN memory
          /\ IF result'.tag = "Ok"
             THEN \E m \in DOMAIN modules :
                    LET i == modules[m].last_free IN
                    /\ i # None
                    /\ result'.addr = FrameContainingAddress(
                          modules[m].start_address + i * PAGE_SIZE)
                    /\ \A n \in DOMAIN modules : n # m => modules'[n] = modules[n]
                    /\ modules'[m] = [modules[m] EXCEPT
                                        !.last_free = modules'[m].last_free]
                    /\ \A o \in DOMAIN memory :
                          memory'[o] # memory[o] =>
                             /\ o = modules[m].bitmap + (i \div 8)
                             /\ memory'[o] = memory[o] + Pow2(7 - (i % 8))
             ELSE modules' = modules /\ memory' = memory
      ]_vars

\* an allocation on a chain of two trackers that moved the hint of the
\* first one
AllocateFrameFrameWitness ==
    /\ state = "Ready"
    /\ Len(modules) = 2
    /\ Len(history) = 1
    /\ result.op = "allocate_frame"
    /\ result.tag = "Ok"
    /\ modules[1].last_free = 7
    /\ modules[1].next = 2

\* C17: every frame allocate_frame returns is frame k < bitmap_entry_count
\* of some tracker of the chain.
ReturnedFramesTracked ==
    \A j \in DOMAIN history :
        (state # "Tracker" /\ history[j].tag = "Ok") =>
            \E m \in DOMAIN modules :
                \E k \in 0 .. (modules[m].bitmap_entry_count - 1) :
                    history[j].addr = FrameContainingAddress(
                        modules[m].start_address + k * PAGE_SIZE)

\* C18: every allocate_frame call ends after at most one allocate_frames
\* call per tracker, no tracker twice, with a frame or with the memory-full
\* error.
AllocateFrameTerminates ==
    [][ (state = "Ready" /\ Len(history') = Len(history) + 1) =>
          LET visits == AllocateFrameVisits(modules, root_module,
                                            Len(modules) + 1)
          IN /\ Len(visits) \in 1 .. Len(modules)
             /\ \A a, b \in DOMAIN visits : a # b => visits[a] # visits[b]
             /\ result'.tag \in {"Ok", "Err"}
             /\ result'.tag = "Ok"
                   <=> AllocateFramesResult(modules[visits[Len(visits)]]) # None
      ]_vars

\* two calls have returned on a chain of two trackers
AllocateFrameTerminatesWitness ==
    /\ state = "Ready"
    /\ Len(modules) = 2
    /\ Len(history) = 2
    /\ history[1].tag = "Ok"
    /\ history[2].tag = "Ok"

\* C19: the metadata buffer [buffer_start, buffer_start + buffer_size) lies
\* inside the host region and inside its first ceil(buffer_size / PAGE_SIZE)
\* frames, counted from the region base.
MetadataBufferCovered ==
    state = "Ready" =>
        /\ buffer_start >= HostEntry.base
        /\ buffer_start + buffer_size <= HostEntry.base + HostEntry.length
        /\ (buffer_start + buffer_size - 1 - HostEntry.base) \div PAGE_SIZE
              < SelfFrameCount

\* C20: when the self-reservation is written to the host tracker, every byte
\* it writes lies inside that tracker's bitmap.
SelfWritesInBounds ==
    (state = "Ready"
        /\ IsHostModule(WalkNext(modules, root_module, containing_entry)))
        => oob = {}

====
